---- MODULE Spec2Model ----
(***************************************************************************)
(* State-machine model of the message store of                            *)
(* app/src/flux/stores/message-store.ts (class _MessageStore).             *)
(*                                                                         *)
(* One action per handler of the store (focus change, debounce timer,     *)
(* database change, the three stages of the asynchronous fetch, the user  *)
(* toggles, the mark-as-read timer).  Every promise the store awaits is a *)
(* record of the bag "pending"; resolving or rejecting it is a step.      *)
(***************************************************************************)
EXTENDS Integers, Sequences, FiniteSets, Bags, TLC

\* ------------------------------------------------------------------ bounds

\* Most fetch chains (promises and groups of message queries) in flight
\* under Spec and SpecBurst.
MaxInFlight == 1

\* Most fetch chains in flight under SpecFetch, where fetches overlap.
MaxOverlap == 2

\* Most mark-as-read delay timers pending at once.
MaxMarkTimers == 1

\* The counter of focus-change events of one burst saturates here.
BurstCap == 4

\* The counter of mark-read effects emitted since the last conversation
\* switch saturates here.
EffectCap == 2

\* Longest list handed to the ordering engine under SpecSort.
MaxSortLen == 4

\* --------------------------------------------------- the database instance

NoThread == 0

\* Conversations the user can focus.
ThreadIds == {1, 2, 3}

\* Calendar names, which the fetch takes for the account's own addresses.
OwnCalendarNames == <<"me">>

\* thread.participants of each conversation.
Participants(t) ==
  CASE t = 1 -> <<[email |-> "me"], [email |-> "x"]>>
    [] t = 2 -> <<[email |-> "y"], [email |-> "me"]>>
    [] t = 3 -> <<[email |-> "me"], [email |-> "z"]>>
    [] OTHER -> <<[email |-> "x"], [email |-> "me"]>>

\* Result of the structured search from:<email>: conversation 4 is a second
\* conversation with sender x, conversation 2 holds no message, and z never
\* sent anything.
SearchThreads(email) ==
  CASE email = "x" -> <<1, 4>>
    [] email = "y" -> <<2>>
    [] OTHER -> <<>>

MsgIds == {1, 2, 3, 6}

\* The messages the ordering engine is handed under SpecSort: the stored ones,
\* a message carrying the headerMessageId of message 1 once more, and a draft
\* that replies to nothing.
SortMsgIds == {1, 2, 3, 4, 5}

\* The stored messages: message 1 of conversation 1, message 2 of
\* conversation 4 (unread, in the trash), the draft, and message 6 of
\* conversation 1, for which isHidden() is true.  hidden is the value of
\* isHidden(); no two messages share a date.
Msg(m) ==
  CASE m = 1 -> [id |-> 1, threadId |-> 1, draft |-> FALSE, unread |-> FALSE,
                 date |-> 1, headerMessageId |-> 11, replyToHeaderMessageId |-> 0,
                 role |-> "inbox", hidden |-> FALSE]
    [] m = 2 -> [id |-> 2, threadId |-> 4, draft |-> FALSE, unread |-> TRUE,
                 date |-> 2, headerMessageId |-> 12, replyToHeaderMessageId |-> 0,
                 role |-> "trash", hidden |-> FALSE]
    [] m = 3 -> [id |-> 3, threadId |-> 1, draft |-> TRUE, unread |-> FALSE,
                 date |-> 3, headerMessageId |-> 13, replyToHeaderMessageId |-> 11,
                 role |-> "drafts", hidden |-> FALSE]
    [] m = 6 -> [id |-> 6, threadId |-> 1, draft |-> FALSE, unread |-> FALSE,
                 date |-> 6, headerMessageId |-> 16, replyToHeaderMessageId |-> 0,
                 role |-> "inbox", hidden |-> TRUE]
    [] m = 4 -> [id |-> 4, threadId |-> 5, draft |-> FALSE, unread |-> FALSE,
                 date |-> 4, headerMessageId |-> 11, replyToHeaderMessageId |-> 0,
                 role |-> "inbox", hidden |-> FALSE]
    [] OTHER -> [id |-> 5, threadId |-> 5, draft |-> TRUE, unread |-> FALSE,
                 date |-> 5, headerMessageId |-> 15, replyToHeaderMessageId |-> 0,
                 role |-> "drafts", hidden |-> FALSE]

\* The one draft of the instance; it belongs to conversation 1 and replies
\* to message 1.
DraftId == CHOOSE m \in MsgIds : Msg(m).draft

FolderNamesHiddenByDefault == {"spam", "trash"}

\* ----------------------------------------------------------------- helpers

RECURSIVE SelectIds(_, _)
\* items.filter(keep) over a list of message ids.
SelectIds(seq, keep) ==
  IF seq = <<>> THEN <<>>
  ELSE IF Head(seq) \in keep THEN <<Head(seq)>> \o SelectIds(Tail(seq), keep)
       ELSE SelectIds(Tail(seq), keep)

Range(seq) == {seq[i] : i \in DOMAIN seq}

\* splice(index, 1) that removes the element before the one asked for, when
\* there is one.
RemoveAtBefore(seq, i0) ==
  [k \in 1..(Len(seq) - 1) |-> IF k < i0 THEN seq[k] ELSE seq[k + 1]]

\* Array.prototype.splice(index, 1) on a 0-based index.
RemoveAt(seq, i0) ==
  [k \in 1..(Len(seq) - 1) |-> IF k <= i0 THEN seq[k] ELSE seq[k + 1]]

\* Array.prototype.splice(index, 0, x) on a 0-based index.
InsertAt(seq, i0, x) ==
  [k \in 1..(Len(seq) + 1) |->
     IF k <= i0 THEN seq[k] ELSE IF k = i0 + 1 THEN x ELSE seq[k - 1]]

\* findIndex that never finds the message: every persisted draft is taken
\* for a new one.
FindIndexNever(seq, x) == -1

\* Array.prototype.findIndex: 0-based, -1 when absent.
FindIndex(seq, x) ==
  IF \E k \in DOMAIN seq : seq[k] = x
  THEN (CHOOSE k \in DOMAIN seq : seq[k] = x /\ \A j \in 1..(k - 1) : seq[j] # x) - 1
  ELSE -1

\* ------------------------------------------------------------------- state

VARIABLES
  focused,                   \* FocusedContentStore.focused('thread'): a thread id or NoThread
  viewingRole,               \* FocusedPerspectiveStore.current().categoriesSharedRole()
  dbMsgs,                    \* ids of the messages the database holds
  dbUnread,                  \* ids of the conversations the database holds as unread
  markAsReadDelay,           \* AppEnv.config 'core.reading.markAsReadDelay'
  thread,                    \* _thread, NullThread for null
  items,                     \* _items, a list of message ids
  itemsExpanded,             \* _itemsExpanded
  itemsLoading,              \* _itemsLoading
  showingHiddenItems,        \* _showingHiddenItems
  lastMarkedAsReadThreadId,  \* _lastMarkedAsReadThreadId, NoThread for null / undefined
  onFocusChangedTimer,       \* TRUE while the 100 ms timer _onFocusChangedTimer is armed
  ownEmailAddresses,         \* ownEmailAddresses
  strangerEmailAddress,      \* strangerEmailAddress
  pending,                   \* bag of the promises the fetch stages wait for
  markTimers,                \* per conversation id, the mark-as-read timers not yet fired
  triggers,                  \* trigger() calls made by the last step
  installedStale,            \* items were installed by a fetch older than the last conversation switch
  applied,                   \* what _onApplyFocusChange did in the last step: "none" (not called), "noop", "switch"
  failure,                   \* the query that rejected in the last step: "none", "current", "stale"
  burstLen,                  \* focus-change events since the debounce timer was last idle
  burstApplied,              \* conversation switches applied since then
  rebuild,                   \* the list rebuild of the last step: "none", "fetch", "persist", "unpersist", "toggle"
  itemsArray,                \* "new" when the last step assigned a newly allocated array to _items, else "same"
  delivered,                 \* the draft notification the last step delivered: "none", "persist", "unpersist"
  emitted,                   \* the conversation the last step queued the mark-read task for, or NoThread
  marked,                    \* conversations the mark-read task has been queued for so far
  stayEmitted,               \* mark-read tasks queued since the last conversation switch
  sortIn,                    \* the list handed to _sortItemsForDisplay
  sortOut                    \* what it returned; <<0>> before the call

vars == <<focused, viewingRole, dbMsgs, dbUnread, markAsReadDelay, thread, items,
          itemsExpanded, itemsLoading, showingHiddenItems, lastMarkedAsReadThreadId,
          onFocusChangedTimer, ownEmailAddresses, strangerEmailAddress, pending,
          markTimers, triggers, installedStale, applied, failure, burstLen,
          burstApplied, rebuild, itemsArray, delivered, emitted, marked,
          stayEmitted,
          sortIn, sortOut>>

NullThread == [id |-> NoThread, unread |-> FALSE]

\* The Thread entity of id t as the database holds it now.
ThreadEntity(t) ==
  IF t = NoThread THEN NullThread ELSE [id |-> t, unread |-> t \in dbUnread]

\* The store's own fields as one record, with what the model records of the
\* step being taken: triggers, applied, failure, rebuild, itemsArray,
\* delivered and emitted restart in every step.
Store ==
  [thread |-> thread, items |-> items, itemsExpanded |-> itemsExpanded,
   itemsLoading |-> itemsLoading, showingHiddenItems |-> showingHiddenItems,
   lastMarked |-> lastMarkedAsReadThreadId, own |-> ownEmailAddresses,
   stranger |-> strangerEmailAddress, pending |-> pending,
   markTimers |-> markTimers, triggers |-> 0, installedStale |-> installedStale,
   applied |-> "none", failure |-> "none", rebuild |-> "none",
   itemsArray |-> "same", delivered |-> "none", emitted |-> NoThread]

SetStore(s) ==
  /\ thread' = s.thread
  /\ items' = s.items
  /\ itemsExpanded' = s.itemsExpanded
  /\ itemsLoading' = s.itemsLoading
  /\ showingHiddenItems' = s.showingHiddenItems
  /\ lastMarkedAsReadThreadId' = s.lastMarked
  /\ ownEmailAddresses' = s.own
  /\ strangerEmailAddress' = s.stranger
  /\ pending' = s.pending
  /\ markTimers' = s.markTimers
  /\ triggers' = s.triggers
  /\ installedStale' = s.installedStale
  /\ applied' = s.applied
  /\ failure' = s.failure
  /\ rebuild' = s.rebuild
  /\ itemsArray' = s.itemsArray
  /\ delivered' = s.delivered
  /\ emitted' = s.emitted

\* this.trigger()
Trigger(s) == [s EXCEPT !.triggers = @ + 1]

\* ------------------------------------------------------ the public getters

\* items() with a filter that never removes a message outside the hidden
\* folders and keeps every draft.
VisibleItemsKeepingOthers(its, showHidden, viewing) ==
  IF showHidden THEN its
  ELSE LET viewingHiddenCategory == viewing \in FolderNamesHiddenByDefault
           keep == {m \in MsgIds :
                      LET inHidden == Msg(m).role \in FolderNamesHiddenByDefault
                      IN  ~inHidden \/ viewingHiddenCategory \/ Msg(m).draft}
       IN  SelectIds(its, keep)

\* items(): the displayed list
VisibleItems(its, showHidden, viewing) ==
  IF showHidden THEN its
  ELSE LET viewingHiddenCategory == viewing \in FolderNamesHiddenByDefault
           keep == {m \in MsgIds :
                      LET inHidden == Msg(m).role \in FolderNamesHiddenByDefault
                      IN  IF viewingHiddenCategory THEN inHidden \/ Msg(m).draft
                          ELSE ~inHidden}
       IN  SelectIds(its, keep)

\* threadId()
ThreadIdOf(th) == th.id

\* hasCollapsedItems()
HasCollapsedItems(s) == Cardinality(DOMAIN s.itemsExpanded) < Len(s.items)

\* ------------------------------------------------- expansion and ordering

\* this._itemsExpanded[id] = value
SetExpanded(exp, id, value) ==
  [k \in (DOMAIN exp) \cup {id} |-> IF k = id THEN value ELSE exp[k]]

\* delete this._itemsExpanded[id]
ClearExpanded(exp, id) == [k \in (DOMAIN exp) \ {id} |-> exp[k]]

\* _expandItemsToDefault
ExpandItemsToDefault(s, viewing) ==
  LET visibleItems == VisibleItems(s.items, s.showingHiddenItems, viewing)
      n == Len(visibleItems)
      draftIdx == {i \in 1..n : Msg(visibleItems[i]).draft}
      lastDraftIdx == IF draftIdx = {} THEN 0
                      ELSE CHOOSE i \in draftIdx : \A j \in draftIdx : j <= i
      chosen == {visibleItems[i] : i \in {j \in 1..n :
                    Msg(visibleItems[j]).unread \/ j = lastDraftIdx \/ j = n}}
  IN  [s EXCEPT !.itemsExpanded =
         [k \in (DOMAIN @) \cup chosen |-> IF k \in chosen THEN "default" ELSE @[k]]]

RECURSIVE ReplyDraftsBackwards(_)
\* First loop of _sortItemsForDisplay: the drafts carrying a
\* replyToHeaderMessageId, in the order the backward scan finds them.
ReplyDraftsBackwards(its) ==
  IF its = <<>> THEN <<>>
  ELSE LET last == its[Len(its)]
           rest == ReplyDraftsBackwards(SubSeq(its, 1, Len(its) - 1))
       IN  IF Msg(last).draft /\ Msg(last).replyToHeaderMessageId # 0
           THEN <<last>> \o rest ELSE rest

\* Second loop of _sortItemsForDisplay without the search for the message
\* replied to: every draft goes to the end.
ReinsertAtEnd(its, drafts) == its \o drafts

RECURSIVE Reinsert(_, _)
\* Second loop of _sortItemsForDisplay: each draft goes after the first
\* message it replies to, or to the end.
Reinsert(its, drafts) ==
  IF drafts = <<>> THEN its
  ELSE LET d == Head(drafts)
           hits == {k \in DOMAIN its :
                      Msg(its[k]).headerMessageId = Msg(d).replyToHeaderMessageId}
           placed == IF hits = {} THEN Append(its, d)
                     ELSE InsertAt(its, CHOOSE k \in hits : \A j \in hits : k <= j, d)
       IN  Reinsert(placed, Tail(drafts))

\* _sortItemsForDisplay
SortItemsForDisplay(its) ==
  LET drafts == ReplyDraftsBackwards(its)
      base == SelectIds(its, Range(its) \ Range(drafts))
  IN  Reinsert(base, drafts)

\* The comparator of the sort of line 402.
DateCompare(a, b) == IF Msg(a).date > Msg(b).date THEN 1 ELSE -1

RECURSIVE InsertByDate(_, _)
\* One insertion of the sort: x moves left past every element the comparator
\* orders after it.
InsertByDate(sorted, x) ==
  IF sorted = <<>> THEN <<x>>
  ELSE IF DateCompare(x, sorted[Len(sorted)]) < 0
       THEN Append(InsertByDate(SubSeq(sorted, 1, Len(sorted) - 1), x), sorted[Len(sorted)])
       ELSE Append(sorted, x)

RECURSIVE SortByDate(_)
\* this._items.sort((a, b) => (a.date > b.date) ? 1 : -1)
SortByDate(its) ==
  IF its = <<>> THEN <<>>
  ELSE InsertByDate(SortByDate(SubSeq(its, 1, Len(its) - 1)), its[Len(its)])

\* items.filter(m => !m.isHidden())
NotHidden(its) == SelectIds(its, {m \in MsgIds : ~Msg(m).hidden})

\* ---------------------------------------------------- the fetch, stage 0

\* A promise of the fetch.  stale records that the conversation was switched
\* after _fetchFromCache was called, which no continuation reads; for the
\* message queries of one _fetchFromCachePart2 call, todo holds the
\* conversations whose query has not answered, pile is the shared
\* messagesToList and notified counts the trigger() calls of the call's
\* continuations.
Promise(kind, stale, email, todo) ==
  [kind |-> kind, stale |-> stale, email |-> email, todo |-> todo, pile |-> <<>>,
   notified |-> 0]

AddPending(s, p) == [s EXCEPT !.pending = @ (+) SetToBag({p})]

DropPending(s, p) == [s EXCEPT !.pending = @ (-) SetToBag({p})]

\* _fetchFromCache up to the query it starts (lines 293-303)
FetchFromCache(s) ==
  IF s.thread = NullThread THEN s
  ELSE AddPending(s, Promise("calendars", FALSE, "", {}))

\* ------------------------------------------------------------ mark as read

\* _markAsRead without the check of line 215: the marker runs at every fetch
\* completion.
MarkAsReadUnkeyed(s, delay) ==
  IF s.thread = NullThread THEN s
  ELSE LET s1 == [s EXCEPT !.lastMarked = s.thread.id]
       IN  IF s1.thread.unread /\ ~(delay < 0)
           THEN [s1 EXCEPT !.markTimers[s1.thread.id] = @ + 1]
           ELSE s1

\* _markAsRead up to the timer it arms (lines 207-223)
MarkAsRead(s, delay) ==
  IF s.thread = NullThread THEN s
  ELSE IF s.lastMarked = s.thread.id THEN s
  ELSE LET s1 == [s EXCEPT !.lastMarked = s.thread.id]
       IN  IF s1.thread.unread /\ ~(delay < 0)
           THEN [s1 EXCEPT !.markTimers[s1.thread.id] = @ + 1]
           ELSE s1

\* The callback of the timer armed for conversation id (lines 223-232):
\* the task is queued when id is still the current conversation and the
\* store's copy of it is unread.
OnMarkTimer(s, id) ==
  LET s1 == [s EXCEPT !.markTimers[id] = @ - 1]
  IN  IF id # ThreadIdOf(s1.thread) \/ ~s1.thread.unread THEN s1
      ELSE [s1 EXCEPT !.emitted = id]

\* ------------------------------------------------------------ focus change

\* Every promise in flight now belongs to an earlier conversation.
MarkStale(p) == [p EXCEPT !.stale = TRUE]

\* _onApplyFocusChange without the early return of line 188: the reset and
\* the trigger run for the current conversation too.
OnApplyFocusChangeAlways(s, focusedThread) ==
  LET s1 == IF focusedThread = NullThread THEN [s EXCEPT !.lastMarked = NoThread]
            ELSE s
      same == ThreadIdOf(s1.thread) = focusedThread.id
  IN  FetchFromCache(Trigger(
        [s1 EXCEPT !.applied = IF same THEN "noop" ELSE "switch",
                   !.thread = focusedThread,
                   !.items = <<>>,
                   !.itemsArray = "new",
                   !.itemsLoading = TRUE,
                   !.showingHiddenItems = FALSE,
                   !.itemsExpanded = <<>>,
                   !.pending = IF same THEN @ ELSE BagOfAll(MarkStale, @),
                   !.installedStale = FALSE]))

\* _onApplyFocusChange without the reset of _itemsExpanded of line 194.
OnApplyFocusChangeKeepsExpanded(s, focusedThread) ==
  LET s1 == IF focusedThread = NullThread THEN [s EXCEPT !.lastMarked = NoThread]
            ELSE s
  IN  IF ThreadIdOf(s1.thread) = focusedThread.id THEN [s1 EXCEPT !.applied = "noop"]
      ELSE FetchFromCache(Trigger(
             [s1 EXCEPT !.applied = "switch",
                        !.thread = focusedThread,
                        !.items = <<>>,
                        !.itemsArray = "new",
                        !.itemsLoading = TRUE,
                        !.showingHiddenItems = FALSE,
                        !.pending = BagOfAll(MarkStale, @),
                        !.installedStale = FALSE]))

\* _onApplyFocusChange
OnApplyFocusChange(s, focusedThread) ==
  LET s1 == IF focusedThread = NullThread THEN [s EXCEPT !.lastMarked = NoThread]
            ELSE s
  IN  IF ThreadIdOf(s1.thread) = focusedThread.id THEN [s1 EXCEPT !.applied = "noop"]
      ELSE FetchFromCache(Trigger(
             [s1 EXCEPT !.applied = "switch",
                        !.thread = focusedThread,
                        !.items = <<>>,
                        !.itemsArray = "new",
                        !.itemsLoading = TRUE,
                        !.showingHiddenItems = FALSE,
                        !.itemsExpanded = <<>>,
                        !.pending = BagOfAll(MarkStale, @),
                        !.installedStale = FALSE]))

\* ---------------------------------------------------- the fetch, stages 1-3

RECURSIVE StrangerOf(_, _, _)
\* The loop of lines 319-333: the last participant that is none of the own
\* addresses, or the address left by an earlier fetch.
StrangerOf(participants, own, current) ==
  IF participants = <<>> THEN current
  ELSE StrangerOf(Tail(participants), own,
                  IF \E i \in DOMAIN own : Head(participants).email = own[i]
                  THEN current ELSE Head(participants).email)

\* fetchThreads up to the search it starts (lines 340-351)
FetchThreads(s, stale) ==
  IF s.stranger = "" THEN s
  ELSE AddPending(s, Promise("search", stale, s.stranger, {}))

\* The continuation of the Calendar query (lines 305-337).  With no
\* conversation focused, self._thread.participants throws and the chain ends.
OnCalendars(s, p) ==
  LET s1 == [DropPending(s, p) EXCEPT !.own = OwnCalendarNames]
  IN  IF s1.thread = NullThread THEN s1
      ELSE FetchThreads(
             [s1 EXCEPT !.stranger =
                StrangerOf(Participants(s1.thread.id), s1.own, s1.stranger)],
             p.stale)

\* _fetchFromCachePart2 up to the queries it starts (lines 361-374)
FetchFromCachePart2(s, threads, stale) ==
  IF threads = <<>> THEN s
  ELSE AddPending(s, Promise("messages", stale, "", Range(threads)))

\* The continuation of the conversation search (lines 355-357)
OnFoundThreads(s, p) ==
  FetchFromCachePart2(DropPending(s, p), SearchThreads(p.email), p.stale)

RECURSIVE AscendingIds(_)
\* A set of message ids as the list the query returns.
AscendingIds(set) ==
  IF set = {} THEN <<>>
  ELSE LET m == CHOOSE x \in set : \A y \in set : x <= y
       IN  <<m>> \o AscendingIds(set \ {m})

\* Result of the query findAll(Message).where({threadId: t})
QueryMessages(db, t) == AscendingIds({m \in db : Msg(m).threadId = t})

\* The continuation of the message query of conversation t (lines 376-424)
OnMessages(s, p, t, found, viewing, delay) ==
  LET messagesToList == p.pile \o found
      q == [p EXCEPT !.todo = @ \ {t}, !.pile = messagesToList, !.notified = @ + 1]
      s0 == DropPending(s, p)
      s1 == IF q.todo = {} THEN s0 ELSE AddPending(s0, q)
      s2 == [s1 EXCEPT !.items = SortByDate(SortItemsForDisplay(NotHidden(messagesToList))),
                       !.itemsArray = "new",
                       !.rebuild = "fetch",
                       !.installedStale = p.stale]
      s3 == [ExpandItemsToDefault(s2, viewing) EXCEPT !.itemsLoading = FALSE]
  IN  Trigger(MarkAsRead(s3, delay))

\* A query that rejects: no continuation runs and nothing catches it.
OnRejected(s, p, t) ==
  LET s1 == [DropPending(s, p) EXCEPT !.failure = IF p.stale THEN "stale" ELSE "current"]
  IN  IF p.kind = "messages" /\ p.todo # {t}
      THEN AddPending(s1, [p EXCEPT !.todo = @ \ {t}])
      ELSE s1

\* ---------------------------------------------------------- database change

\* _onDataChanged; objects are message ids for a Message change and Thread
\* entities for a Thread change.
OnDataChanged(s, change, viewing) ==
  IF s.thread = NullThread THEN s
  ELSE IF change.objectClass = "Message"
  THEN LET inDisplayedThread ==
             \E i \in DOMAIN change.objects :
                Msg(change.objects[i]).threadId = s.thread.id
           item == change.objects[1]
           itemIndex == FindIndex(s.items, item)
       IN  IF ~inDisplayedThread THEN s
           ELSE IF Len(change.objects) = 1 /\ Msg(item).draft
                   /\ change.type = "persist" /\ itemIndex = -1
           THEN Trigger(ExpandItemsToDefault(
                  [s EXCEPT !.items =
                     SortItemsForDisplay(NotHidden(Append(s.items, item))),
                            !.itemsArray = "new",
                            !.rebuild = "persist"],
                  viewing))
           ELSE IF Len(change.objects) = 1 /\ Msg(item).draft
                   /\ change.type = "unpersist" /\ itemIndex # -1
           THEN Trigger(ExpandItemsToDefault(
                  [s EXCEPT !.items = RemoveAt(NotHidden(s.items), itemIndex),
                            !.itemsArray = "new",
                            !.rebuild = "unpersist"],
                  viewing))
           ELSE FetchFromCache(s)
  ELSE LET updated == {i \in DOMAIN change.objects :
                         change.objects[i].id = s.thread.id}
       IN  IF updated = {} THEN s
           ELSE FetchFromCache(
                  [s EXCEPT !.thread =
                     change.objects[CHOOSE i \in updated : \A j \in updated : i <= j]])

\* ------------------------------------------------------------- user toggles

\* _expandItem
ExpandItem(s, id) == [s EXCEPT !.itemsExpanded = SetExpanded(@, id, "explicit")]

\* _collapseItem
CollapseItem(s, id) == [s EXCEPT !.itemsExpanded = ClearExpanded(@, id)]

RECURSIVE ForEachItem(_, _, _)
\* items.forEach(i => op(i)) for op one of _expandItem, _collapseItem
ForEachItem(s, its, expand) ==
  IF its = <<>> THEN s
  ELSE ForEachItem(IF expand THEN ExpandItem(s, Head(its)) ELSE CollapseItem(s, Head(its)),
                   Tail(its), expand)

\* _onToggleAllMessagesExpanded
OnToggleAllMessagesExpanded(s) ==
  Trigger(IF HasCollapsedItems(s) THEN ForEachItem(s, s.items, TRUE)
          ELSE ForEachItem(s, SubSeq(s.items, 1, Len(s.items) - 1), FALSE))

\* _onToggleHiddenMessages
OnToggleHiddenMessages(s, viewing) ==
  Trigger(ExpandItemsToDefault(
            [s EXCEPT !.showingHiddenItems = ~s.showingHiddenItems,
                      !.rebuild = "toggle"], viewing))

\* _onToggleMessageIdExpanded
OnToggleMessageIdExpanded(s, id) ==
  IF id \notin Range(s.items) THEN s
  ELSE Trigger(IF id \in DOMAIN s.itemsExpanded THEN CollapseItem(s, id)
               ELSE ExpandItem(s, id))

\* ------------------------------------------------------------------ actions

\* Sum of the pending mark-as-read timers.
TimerCount(mt) == mt[1] + mt[2] + mt[3]

\* The step ends in store state s, within the bounds of the model.
Commit(s) ==
  /\ TimerCount(s.markTimers) <= MaxMarkTimers
  /\ SetStore(s)

\* The store after construction, with nothing handed to the ordering engine.
InitStore ==
  /\ focused = NoThread
  /\ viewingRole = "inbox"
  /\ dbMsgs = MsgIds \ {DraftId}
  /\ dbUnread = {1}
  /\ markAsReadDelay \in {-1, 500}
  /\ thread = NullThread
  /\ items = <<>>
  /\ itemsExpanded = <<>>
  /\ itemsLoading = FALSE
  /\ showingHiddenItems = FALSE
  /\ lastMarkedAsReadThreadId = NoThread
  /\ onFocusChangedTimer = FALSE
  /\ ownEmailAddresses = <<>>
  /\ strangerEmailAddress = ""
  /\ pending = EmptyBag
  /\ markTimers = [t \in ThreadIds |-> 0]
  /\ triggers = 0
  /\ installedStale = FALSE
  /\ applied = "none"
  /\ failure = "none"
  /\ burstLen = 0
  /\ burstApplied = 0
  /\ rebuild = "none"
  /\ itemsArray = "same"
  /\ delivered = "none"
  /\ emitted = NoThread
  /\ marked = {}
  /\ stayEmitted = 0

Init ==
  /\ InitStore
  /\ sortIn = <<>>
  /\ sortOut = <<0>>

\* _onFocusChanged without the debounce: every change is applied at once.
FocusChangedUndebounced(e) ==
  /\ focused' = e
  /\ onFocusChangedTimer' = TRUE
  /\ Commit(OnApplyFocusChange(Store, ThreadEntity(e)))
  /\ UNCHANGED <<viewingRole, dbMsgs, dbUnread, markAsReadDelay>>

\* _onFocusChanged for a change that impacts the 'thread' collection: the
\* focus store now holds conversation e (NoThread: none).
FocusChanged(e) ==
  LET s == IF onFocusChangedTimer THEN Store
           ELSE OnApplyFocusChange(Store, ThreadEntity(e))
  IN  /\ focused' = e
      /\ onFocusChangedTimer' = TRUE
      /\ Commit(s)
      /\ UNCHANGED <<viewingRole, dbMsgs, dbUnread, markAsReadDelay>>

\* The callback of the 100 ms timer without its call of _onApplyFocusChange:
\* a debounce that fires on the leading edge only.
FocusTimerFiredLeadingOnly ==
  /\ onFocusChangedTimer
  /\ onFocusChangedTimer' = FALSE
  /\ Commit(Store)
  /\ UNCHANGED <<focused, viewingRole, dbMsgs, dbUnread, markAsReadDelay>>

\* The callback of the 100 ms timer (lines 175-178)
FocusTimerFired ==
  LET s == OnApplyFocusChange(Store, ThreadEntity(focused))
  IN  /\ onFocusChangedTimer
      /\ onFocusChangedTimer' = FALSE
      /\ Commit(s)
      /\ UNCHANGED <<focused, viewingRole, dbMsgs, dbUnread, markAsReadDelay>>

Frame == UNCHANGED <<focused, viewingRole, dbMsgs, dbUnread, markAsReadDelay,
                     onFocusChangedTimer>>

\* The Calendar query of a fetch answers.
CalendarsResolved ==
  \E p \in BagToSet(pending) :
    /\ p.kind = "calendars"
    /\ Commit(OnCalendars(Store, p))
    /\ Frame

\* The conversation search of a fetch answers.
SearchResolved ==
  \E p \in BagToSet(pending) :
    /\ p.kind = "search"
    /\ Commit(OnFoundThreads(Store, p))
    /\ Frame

\* The message query of one conversation of a fetch answers.
MessagesResolved ==
  \E p \in BagToSet(pending) : \E t \in p.todo :
    /\ p.kind = "messages"
    /\ Commit(OnMessages(Store, p, t, QueryMessages(dbMsgs, t), viewingRole,
                         markAsReadDelay))
    /\ Frame

\* A query of a fetch rejects.
QueryRejected ==
  \E p \in BagToSet(pending) : \E t \in (IF p.kind = "messages" THEN p.todo ELSE {NoThread}) :
    /\ Commit(OnRejected(Store, p, t))
    /\ Frame

\* The database saves the draft and notifies the store.
DraftPersisted ==
  /\ dbMsgs' = dbMsgs \cup {DraftId}
  /\ Commit(OnDataChanged([Store EXCEPT !.delivered = "persist"],
        [objectClass |-> "Message", type |-> "persist", objects |-> <<DraftId>>],
        viewingRole))
  /\ UNCHANGED <<focused, viewingRole, dbUnread, markAsReadDelay,
                 onFocusChangedTimer>>

\* The database deletes the draft and notifies the store.
DraftUnpersisted ==
  /\ DraftId \in dbMsgs
  /\ dbMsgs' = dbMsgs \ {DraftId}
  /\ Commit(OnDataChanged([Store EXCEPT !.delivered = "unpersist"],
        [objectClass |-> "Message", type |-> "unpersist", objects |-> <<DraftId>>],
        viewingRole))
  /\ UNCHANGED <<focused, viewingRole, dbUnread, markAsReadDelay,
                 onFocusChangedTimer>>

\* The lists of stored messages one change notification reports as saved.
ChangeLists == {<<1>>, <<2>>, <<2, DraftId>>}

\* The database saves messages again and notifies the store.
MessagesChanged ==
  \E objs \in ChangeLists :
    /\ Range(objs) \subseteq dbMsgs
    /\ Commit(OnDataChanged(Store,
          [objectClass |-> "Message", type |-> "persist", objects |-> objs],
          viewingRole))
    /\ Frame

\* The conversations whose unread flag changes in this instance.
UnreadToggling == {1}

\* The database saves conversation t, its unread flag flipped when it is one
\* of UnreadToggling, and notifies the store.
ThreadChanged ==
  \E t \in ThreadIds :
    LET flipped == IF t \in dbUnread THEN dbUnread \ {t} ELSE dbUnread \cup {t}
        updated == [id |-> t, unread |-> t \in UnreadToggling /\ t \notin dbUnread]
    IN  /\ dbUnread' = IF t \in UnreadToggling THEN flipped ELSE dbUnread
        /\ Commit(OnDataChanged(Store,
              [objectClass |-> "Thread", type |-> "persist", objects |-> <<updated>>],
              viewingRole))
        /\ UNCHANGED <<focused, viewingRole, dbMsgs, markAsReadDelay,
                       onFocusChangedTimer>>

\* _onPerspectiveChanged: the perspective store now shows another category.
PerspectiveChanged ==
  \E role \in {"inbox", "trash"} :
    /\ role # viewingRole
    /\ viewingRole' = role
    /\ Commit(Trigger(Store))
    /\ UNCHANGED <<focused, dbMsgs, dbUnread, markAsReadDelay,
                   onFocusChangedTimer>>

\* Actions.toggleAllMessagesExpanded
ToggleAllMessagesExpanded ==
  /\ Commit(OnToggleAllMessagesExpanded(Store))
  /\ Frame

\* Actions.toggleHiddenMessages
ToggleHiddenMessages ==
  /\ Commit(OnToggleHiddenMessages(Store, viewingRole))
  /\ Frame

\* Actions.toggleMessageIdExpanded
ToggleMessageIdExpanded ==
  \E id \in MsgIds :
    /\ Commit(OnToggleMessageIdExpanded(Store, id))
    /\ Frame

\* The callback of a mark-as-read timer armed for conversation id
\* (lines 223-232); the task it queues is the mark-read effect.
MarkTimerFired ==
  \E id \in ThreadIds :
    /\ markTimers[id] > 0
    /\ Commit(OnMarkTimer(Store, id))
    /\ Frame

\* The counters of the current burst of focus changes, which the store does
\* not keep: they are followed under SpecBurst only.
BurstIdle == UNCHANGED <<burstLen, burstApplied>>

\* The conversations the user focuses under Spec.
FocusTargets == {NoThread, 1, 3}

\* No more than n fetch chains are in flight after the step.
InFlightWithin(n) == BagCardinality(pending') <= n

\* The record of the mark-read tasks queued, which the store does not keep:
\* it is followed under SpecMark only.
MarkIdle == UNCHANGED <<marked, stayEmitted>>

\* The ordering engine is called on its own under SpecSort only.
SortIdle == UNCHANGED <<sortIn, sortOut>>

\* What every step of Spec and SpecFetch adds to the handler it takes.
Within(n) == BurstIdle /\ MarkIdle /\ SortIdle /\ InFlightWithin(n)

Next ==
  \/ \E e \in FocusTargets : FocusChanged(e) /\ Within(MaxInFlight)
  \/ FocusTimerFired /\ Within(MaxInFlight)
  \/ CalendarsResolved /\ Within(MaxInFlight)
  \/ SearchResolved /\ Within(MaxInFlight)
  \/ MessagesResolved /\ Within(MaxInFlight)
  \/ DraftPersisted /\ Within(MaxInFlight)
  \/ DraftUnpersisted /\ Within(MaxInFlight)
  \/ MessagesChanged /\ Within(MaxInFlight)
  \/ ThreadChanged /\ Within(MaxInFlight)
  \/ PerspectiveChanged /\ Within(MaxInFlight)
  \/ ToggleAllMessagesExpanded /\ Within(MaxInFlight)
  \/ ToggleHiddenMessages /\ Within(MaxInFlight)
  \/ ToggleMessageIdExpanded /\ Within(MaxInFlight)
  \/ MarkTimerFired /\ Within(MaxInFlight)

\* Spec starts with the mark-as-read delay set to a positive value; the
\* negative values, which switch the marker off, are followed under SpecFetch.
InitDelayed == Init /\ ~(markAsReadDelay < 0)

Spec == InitDelayed /\ [][Next]_vars

\* ------------------------------------------------- overlapping fetches

\* The store under focus changes and database notifications alone, with
\* room for the fetch of one conversation to overlap the fetch of the next.
NextFetch ==
  \/ \E e \in ThreadIds \cup {NoThread} : FocusChanged(e) /\ Within(MaxOverlap)
  \/ FocusTimerFired /\ Within(MaxOverlap)
  \/ CalendarsResolved /\ Within(MaxOverlap)
  \/ SearchResolved /\ Within(MaxOverlap)
  \/ MessagesResolved /\ Within(MaxOverlap)
  \/ QueryRejected /\ Within(MaxOverlap)
  \/ MessagesChanged /\ Within(MaxOverlap)
  \/ ThreadChanged /\ Within(MaxOverlap)
  \/ MarkTimerFired /\ Within(MaxOverlap)

SpecFetch == Init /\ [][NextFetch]_vars

\* ------------------------------------------------- bursts of focus changes

\* 1 when the step switches the conversation.
Switched == IF ThreadIdOf(thread') # ThreadIdOf(thread) THEN 1 ELSE 0

\* A focus change opens a burst when no timer is pending and joins the
\* current burst otherwise.
CountEvent ==
  /\ burstLen' = IF ~onFocusChangedTimer THEN 1
                 ELSE IF burstLen < BurstCap THEN burstLen + 1 ELSE BurstCap
  /\ burstApplied' = (IF onFocusChangedTimer THEN burstApplied ELSE 0) + Switched

\* The timer closes the burst.
CountTrailing ==
  /\ burstLen' = burstLen
  /\ burstApplied' = burstApplied + Switched

\* The store under focus changes, with the fetches they launch and the
\* notifications of the database, counting the events and the conversation
\* switches of each burst.
NextBurst ==
  \/ \E e \in ThreadIds \cup {NoThread} : FocusChanged(e) /\ CountEvent /\ MarkIdle /\ SortIdle /\ InFlightWithin(MaxInFlight)
  \/ FocusTimerFired /\ CountTrailing /\ MarkIdle /\ SortIdle /\ InFlightWithin(MaxInFlight)
  \/ CalendarsResolved /\ Within(MaxInFlight)
  \/ SearchResolved /\ Within(MaxInFlight)
  \/ MessagesResolved /\ Within(MaxInFlight)
  \/ QueryRejected /\ Within(MaxInFlight)
  \/ DraftPersisted /\ Within(MaxInFlight)
  \/ DraftUnpersisted /\ Within(MaxInFlight)
  \/ MessagesChanged /\ Within(MaxInFlight)
  \/ ThreadChanged /\ Within(MaxInFlight)
  \/ MarkTimerFired /\ Within(MaxInFlight)

SpecBurst == InitDelayed /\ [][NextBurst]_vars

\* ------------------------------------------------- the ordering engine

\* The lists handed to _sortItemsForDisplay: up to MaxSortLen distinct
\* messages, the reply draft among them.
SortInputs ==
  {seq \in UNION {[1..n -> SortMsgIds] : n \in 1..MaxSortLen} :
     /\ \A i, j \in DOMAIN seq : seq[i] = seq[j] => i = j
     /\ DraftId \in Range(seq)}

\* _sortItemsForDisplay is called on the list sortIn.
SortCalled ==
  /\ sortOut = <<0>>
  /\ sortOut' = SortItemsForDisplay(sortIn)
  /\ UNCHANGED <<focused, viewingRole, dbMsgs, dbUnread, markAsReadDelay, thread,
                 items, itemsExpanded, itemsLoading, showingHiddenItems,
                 lastMarkedAsReadThreadId, onFocusChangedTimer, ownEmailAddresses,
                 strangerEmailAddress, pending, markTimers, triggers, installedStale,
                 applied, failure, burstLen, burstApplied, rebuild, itemsArray,
                 delivered, emitted, marked, stayEmitted, sortIn>>

NextSort == SortCalled

InitSort ==
  /\ InitStore
  /\ sortIn \in SortInputs
  /\ sortOut = <<0>>

\* The ordering engine alone, on every list of SortInputs.
SpecSort == InitSort /\ [][NextSort]_vars

\* ------------------------------------------------- the mark-read effect

\* The record of the mark-read tasks the step queued.
CountEffects ==
  /\ marked' = marked \cup (IF emitted' = NoThread THEN {} ELSE {emitted'})
  /\ stayEmitted' = IF applied' = "switch" THEN 0
                    ELSE IF emitted' # NoThread /\ stayEmitted < EffectCap
                         THEN stayEmitted + 1
                         ELSE stayEmitted

\* What every step of SpecMark adds to the handler it takes.
Counted == CountEffects /\ BurstIdle /\ SortIdle /\ InFlightWithin(MaxInFlight)

\* The conversations the user focuses under SpecMark: conversation 1, whose
\* unread flag changes, and conversation 2.
MarkTargets == {NoThread, 1, 2}

\* The store under focus changes, fetches and updates of the conversation
\* entity, with the mark-as-read delay positive or negative.
NextMark ==
  \/ \E e \in MarkTargets : FocusChanged(e) /\ Counted
  \/ FocusTimerFired /\ Counted
  \/ CalendarsResolved /\ Counted
  \/ SearchResolved /\ Counted
  \/ MessagesResolved /\ Counted
  \/ ThreadChanged /\ Counted
  \/ MarkTimerFired /\ Counted

SpecMark == Init /\ [][NextMark]_vars

\* ------------------------------------------------------------- properties

\* The list observers read through items().
DisplayList == VisibleItems(items, showingHiddenItems, viewingRole)

\* No fetch is in flight and no debounce timer is pending.
Quiescent == pending = EmptyBag /\ ~onFocusChangedTimer

\* The search of the fetch of conversation t finds no conversation.
ZeroConversations(t) ==
  SearchThreads(StrangerOf(Participants(t), OwnCalendarNames, "")) = <<>>

\* C1: once another conversation is current, the list never shows what a
\* fetch launched for the previous conversation delivered: whatever a fetch
\* older than the last conversation switch installs is discarded.
C1_StaleFetchNeverDisplayed ==
  (thread # NullThread /\ installedStale) => DisplayList = <<>>

\* C2: the loading flag set by a conversation switch is cleared only by the
\* completion of a fetch launched after that switch, never by the completion
\* of a fetch launched under an earlier focus.
C2_LoadingClearedByCurrentFetchOnly ==
  [][(itemsLoading /\ ~itemsLoading' /\ thread' # NullThread) => ~installedStale']_vars

\* C3: a fetch cycle notifies observers once, after the whole merged list is
\* installed: no cycle that still waits for a message query has notified.
C3_NotifiedOnlyWhenCycleComplete ==
  \A p \in BagToSet(pending) : p.kind = "messages" => p.notified = 0

\* C4 as claimed: a burst of three focus changes, each within 100 ms of the
\* previous one, switches the conversation no more than once, to the entity
\* of the last event.
C4_BurstOfThreeSwitchesOnce ==
  (~onFocusChangedTimer /\ burstLen = 3) =>
     (burstApplied <= 1 /\ ThreadIdOf(thread) = focused)

\* C4 as amended: such a burst switches the conversation at most twice, once
\* at its leading edge and once when the timer fires, and ends on the entity
\* of the last event.
C4_BurstOfThreeSwitchesAtMostTwice ==
  (~onFocusChangedTimer /\ burstLen = 3) =>
     (burstApplied <= 2 /\ ThreadIdOf(thread) = focused)

\* A burst of three events has ended after two switches.
C4_Witness ==
  ~onFocusChangedTimer /\ burstLen = 3 /\ burstApplied = 2 /\ ThreadIdOf(thread) = focused

\* C5: once 100 ms have passed without a focus change (no timer is pending),
\* the current conversation is the entity of the last focus change, null
\* included.
C5_SettlesOnLastTarget ==
  ~onFocusChangedTimer => ThreadIdOf(thread) = focused

\* A burst of several events, whose leading edge switched to another target,
\* has settled on the last one.
C5_Witness ==
  ~onFocusChangedTimer /\ burstLen >= 2 /\ burstApplied = 2 /\ applied = "switch"
     /\ ThreadIdOf(thread) = focused

\* C6: applying a focus change whose target is the current conversation
\* changes neither the list, the expansion map, the loading flag nor the
\* show-hidden toggle, launches no fetch and notifies nobody.
C6_SameTargetIsNoOp ==
  [][applied' = "noop" =>
       (UNCHANGED <<thread, items, itemsExpanded, itemsLoading,
                    showingHiddenItems, pending>> /\ triggers' = 0)]_vars

\* The timer has fired on the conversation already shown, whose list a fetch
\* had populated and the user had unfolded.
C6_Witness ==
  /\ applied = "noop" /\ ~onFocusChangedTimer
  /\ items # <<>> /\ itemsExpanded # <<>> /\ showingHiddenItems

\* C7: applying a focus change to another conversation, null included, leaves
\* in the same step the list and the expansion map empty, the loading flag
\* set, the show-hidden toggle off and observers notified once.
C7_SwitchResets ==
  applied = "switch" =>
     /\ items = <<>> /\ itemsExpanded = <<>>
     /\ itemsLoading /\ ~showingHiddenItems
     /\ triggers = 1

\* The store has just switched to no conversation.
C7_Witness == applied = "switch" /\ thread = NullThread /\ ownEmailAddresses # <<>>

\* C8: when the search of the focused conversation finds no conversation,
\* the fetch still completes: once nothing is in flight any more the loading
\* flag is off and the list is empty.
C8_EmptyResultCompletes ==
  (Quiescent /\ thread # NullThread /\ ZeroConversations(thread.id)) =>
     (~itemsLoading /\ DisplayList = <<>>)

\* C9: a query of the current fetch that rejects leaves the store not
\* loading and with an empty list.
C9_FailureLeavesEmptyNotLoading ==
  failure = "current" => (~itemsLoading /\ items = <<>>)

\* C10: every id of the expansion map is the id of a message of the list.
C10_ExpandedAreListed ==
  DOMAIN itemsExpanded \subseteq Range(items)

\* The stored message m is in one of the folders hidden by default.
InHiddenFolder(m) == Msg(m).role \in FolderNamesHiddenByDefault

\* The viewer is looking at one of the folders hidden by default.
ViewingHidden == viewingRole \in FolderNamesHiddenByDefault

\* C11 as claimed: a stored message of a hidden folder is displayed exactly
\* when the viewer views a hidden folder, or the show-hidden toggle is on, or
\* it is a draft; a message of any other folder is always displayed.
C11_HiddenFilterAsClaimed ==
  \A k \in DOMAIN items :
    LET m == items[k]
    IN  (m \in Range(DisplayList)) <=>
          (~InHiddenFolder(m) \/ ViewingHidden \/ showingHiddenItems \/ Msg(m).draft)

\* C11 as amended: with the show-hidden toggle on every stored message is
\* displayed; with it off, a viewer of a hidden folder sees exactly the
\* messages of hidden folders and the drafts, and any other viewer sees
\* exactly the messages outside the hidden folders.  The displayed messages
\* keep the order of the stored list.
C11_HiddenFilterByFolderViewed ==
  /\ \A k \in DOMAIN items :
       LET m == items[k]
       IN  (m \in Range(DisplayList)) <=>
             \/ showingHiddenItems
             \/ ViewingHidden /\ (InHiddenFolder(m) \/ Msg(m).draft)
             \/ ~ViewingHidden /\ ~InHiddenFolder(m)
  /\ DisplayList = SelectIds(items, Range(DisplayList))

\* The viewer of the trash has a message of the inbox, a message of the trash
\* and a draft in the stored list, the toggle off: the first is not displayed.
C11_Witness ==
  /\ ViewingHidden /\ ~showingHiddenItems
  /\ Range(items) = {1, 2, DraftId}
  /\ DisplayList = <<2, DraftId>>

\* The messages _expandItemsToDefault expands in the displayed list vis: the
\* unread ones, the last draft and the last message.
DefaultExpanded(vis) ==
  {vis[i] : i \in {j \in DOMAIN vis :
      \/ Msg(vis[j]).unread
      \/ j = Len(vis)
      \/ Msg(vis[j]).draft /\ \A k \in (j + 1)..Len(vis) : ~Msg(vis[k]).draft}}

\* C12: after every rebuild of the list a displayed message the user had not
\* expanded explicitly carries the value 'default' exactly when it is unread,
\* the last draft or the last message displayed, and an explicit entry stays
\* explicit.
C12_DefaultsRecomputedOnRebuild ==
  [][rebuild' # "none" =>
       \A m \in Range(DisplayList') :
         IF m \in DOMAIN itemsExpanded /\ itemsExpanded[m] = "explicit"
         THEN m \in DOMAIN itemsExpanded' /\ itemsExpanded'[m] = "explicit"
         ELSE (m \in DOMAIN itemsExpanded' /\ itemsExpanded'[m] = "default")
                <=> m \in DefaultExpanded(DisplayList')]_vars

\* No id occurs twice in the list.
NoDuplicates(seq) == \A i, j \in DOMAIN seq : seq[i] = seq[j] => i = j

\* C13: however often the single-object persist notification of the draft is
\* delivered, and whatever fetches complete in between, no two elements of
\* the displayed list (nor of the stored list) have the same id.
C13_PersistTwiceNoDuplicate ==
  NoDuplicates(DisplayList) /\ NoDuplicates(items)

\* The persist notification of the draft arrives while the draft is displayed
\* already: it was delivered before, and this delivery launches a refetch
\* instead of appending.
C13_Witness ==
  /\ delivered = "persist"
  /\ DraftId \in Range(DisplayList)
  /\ rebuild = "none" /\ triggers = 0
  /\ \E p \in BagToSet(pending) : p.kind = "calendars" /\ ~p.stale

\* C14: for a list holding the reply draft, the ordering engine returns a
\* permutation of the list in which the other messages keep their order and
\* the draft stands right after the first message carrying the
\* headerMessageId it replies to, or last when no message carries it.
C14_DraftFollowsItsTarget ==
  sortOut # <<0>> =>
    LET others == Range(sortIn) \ {DraftId}
        targets == {k \in DOMAIN sortOut :
                      /\ sortOut[k] # DraftId
                      /\ Msg(sortOut[k]).headerMessageId =
                           Msg(DraftId).replyToHeaderMessageId}
        at == CHOOSE k \in DOMAIN sortOut : sortOut[k] = DraftId
    IN  /\ Len(sortOut) = Len(sortIn)
        /\ Range(sortOut) = Range(sortIn)
        /\ NoDuplicates(sortOut)
        /\ SelectIds(sortOut, others) = SelectIds(sortIn, others)
        /\ IF targets = {} THEN at = Len(sortOut)
           ELSE \E k \in targets : at = k + 1 /\ \A j \in targets : k <= j

\* The base order [M1, M2] with the draft replying to M1 has become
\* [M1, D, M2].
C14_Witness == sortIn = <<1, 2, DraftId>> /\ sortOut = <<1, DraftId, 2>>

\* C15 as claimed: once the mark-read task has been queued for a
\* conversation, it is never queued for that conversation again, whatever was
\* focused in between.
C15_NeverMarkedAgain ==
  [][emitted' # NoThread => emitted' \notin marked]_vars

\* C15 as amended: the marker remembers only the conversation it ran for
\* last.  It arms a delay timer for a conversation only when that is the
\* current conversation and not the one it ran for last, so that fetch
\* completions of the conversation it ran for last arm nothing; clearing the
\* focus to null forgets the conversation, and a task is queued only by a
\* timer, for the conversation then current.
C15_RearmedOnlyAfterOtherOrNull ==
  [][/\ \A t \in ThreadIds :
          markTimers'[t] > markTimers[t] =>
            /\ lastMarkedAsReadThreadId # t
            /\ lastMarkedAsReadThreadId' = t
            /\ ThreadIdOf(thread') = t
     /\ (applied' = "switch" /\ thread' = NullThread) =>
          lastMarkedAsReadThreadId' = NoThread
     /\ emitted' # NoThread =>
          /\ markTimers'[emitted'] = markTimers[emitted'] - 1
          /\ ThreadIdOf(thread') = emitted']_vars

\* The task was queued for conversation 1, and after a change of focus a
\* timer is armed for conversation 1 again.
C15_Witness ==
  /\ 1 \in marked
  /\ markTimers[1] > 0
  /\ ThreadIdOf(thread) = 1
  /\ lastMarkedAsReadThreadId = 1

\* C16: since the current conversation became current the mark-read task has
\* been queued at most once, a step queues it only for the current
\* conversation while the store holds it as unread, and with a negative delay
\* it is never queued.
C16_AtMostOncePerFocus ==
  /\ stayEmitted <= 1
  /\ emitted # NoThread => (emitted = ThreadIdOf(thread) /\ thread.unread)
  /\ markAsReadDelay < 0 => (emitted = NoThread /\ marked = {})

\* C17: in the list a fetch completion has installed, a reply draft whose
\* target is displayed sits right after the first message carrying the
\* headerMessageId it replies to.
C17_FetchKeepsRethreading ==
  rebuild = "fetch" =>
    \A i \in DOMAIN DisplayList :
      LET d == DisplayList[i]
          targets == {k \in DOMAIN DisplayList :
                        /\ DisplayList[k] # d
                        /\ Msg(DisplayList[k]).headerMessageId =
                             Msg(d).replyToHeaderMessageId}
      IN  (Msg(d).draft /\ Msg(d).replyToHeaderMessageId # 0 /\ targets # {}) =>
            \E k \in targets : i = k + 1 /\ \A j \in targets : k <= j

\* C18: hasCollapsedItems() is true exactly when a message of the stored
\* list has no entry in the expansion map.
C18_HasCollapsedIffSomeCollapsed ==
  HasCollapsedItems(Store) <=> \E k \in DOMAIN items : items[k] \notin DOMAIN itemsExpanded

C20_NotLoadingWithoutConversation ==
  (Quiescent /\ thread = NullThread) => ~itemsLoading

====
